---------------------------- MODULE Spec2Model ----------------------------
(***************************************************************************)
(* Laptop Smart Power Manager: the power-supply controller                 *)
(* (lspm/laptop_smart_power_manager.py), the interrupt event handlers      *)
(* (lspm/interrupt_event_handler.py) and the owner of the launch script    *)
(* (scripts/launch_laptop_smart_power_manager.py).                         *)
(*                                                                         *)
(* Execution contexts:                                                     *)
(*   "main"  the owner's thread: runs __init__, start(), the is_running    *)
(*           polling, join() and, between any two of its steps, the signal *)
(*           handlers (Python runs them in the main thread);               *)
(*   "loop"  the thread of LaptopSmartPowerManager.run();                  *)
(*   one threading.Timer thread per __check_smart_plug_state call, named   *)
(*           after the context that armed it.                              *)
(* Each action is one step of one context between two accesses to state    *)
(* shared with another context (Event objects, __connection_lost, the      *)
(* driver).  Delays are abstracted: a timer may expire at any moment after *)
(* the code that armed it has gone on, a wait may time out at any moment,  *)
(* with the orderings the parameters fix (STATE_CHANGE_TIMEOUT > 0,        *)
(* REFRESH_TIME > STATE_CHANGE_TIMEOUT).                                   *)
(***************************************************************************)
EXTENDS Integers, Sequences, FiniteSets, TLC

\* ------------------------------------------------------------ parameters
BATTERY_LOW == 20
BATTERY_HIGH == 80
REFRESH_TIME == 30
STATE_CHANGE_TIMEOUT == 10

\* ---------------------------------------------------------------- bounds
\* iterations of run() that get past the wait
MaxCycles == 2
\* deliveries of an interrupt (SIGINT, shutdown event, direct stop() call)
MaxStops == 2

\* ------------------------------------------------------------- constants
Ctx == {"main", "loop"}
Supported == {"Windows", "Linux", "Darwin"}
\* what platform.system() can return: the three names of lines 42-46, other
\* systems, a name in another case, and "" when the system is not known
Systems == Supported \cup {"Java", "FreeBSD", "windows", ""}
\* the __check_smart_plug_state calls: line 55, line 56 (through
\* __manage_power_supply, line 152 or 156) and the one of a loop iteration
Calls == {"main1", "main2", "cycle"}
\* the callers of stop(): __check_connection_to_smart_plug in a context,
\* interaction_lost in the Timer thread of a call, and the innermost handler
\* (or direct call) running in the main thread
Callers == Ctx \cup Calls \cup {"handler"}
DriverResults == {"obeyed", "ignored", "error"}
\* the callers of turn_on / turn_off whose calls are counted: __init__ with its
\* decision cycle, and stop(); those of run() are seen in `event`
Origins == {"main", "stop"}
Cmds == {"on", "off"}

\* psutil.sensors_battery(): None, power_plugged None, or a snapshot
Percents == 0..100
BoundaryPercents == {BATTERY_LOW - 1, BATTERY_LOW, BATTERY_HIGH - 1, BATTERY_HIGH}
Readings(P) == [kind : {"ok"}, percent : P, plugged : BOOLEAN]
                 \cup {[kind |-> "none", percent |-> 0, plugged |-> FALSE],
                       [kind |-> "no_ac", percent |-> 0, plugged |-> FALSE]}
NoReading == [kind |-> "unread", percent |-> 0, plugged |-> FALSE]

VARIABLES
    handle_exceptions_in_main_thread, \* constructor argument
    finished,           \* self.__finished (Event)
    connection_lost,    \* self.__connection_lost
    exception,          \* self.exception
    device_on,          \* the plug's relay, read by is_on
    pc,                 \* position of "main" and "loop"
    ret,                \* where each context continues after its verification
    raised,             \* the exception that left each context, or "none"
    state_changed,      \* the Event of each verification call in progress
    expected_state,     \* the target of each verification call in progress
    timeout,            \* the Timer of each verification call
    stopPc,             \* position of each caller inside stop()
    frames,             \* stop() calls of handlers in the main thread, innermost last
    handler,            \* what the process's handler table holds
    queued,             \* WM_QUERYENDSESSION messages not pumped yet
    delivered,          \* interrupts delivered so far
    cycles,             \* iterations of run() past the wait
    sent,               \* number of turn_on / turn_off calls by __init__ and by stop()
    outcome,            \* how the latest verification call of each kind goes: "begun",
                        \* "polling" (polled, no match yet), "matched", "timed_out", "failed"
    event               \* what the last step did to the plug, the sensor or a call

vars == <<handle_exceptions_in_main_thread, finished, connection_lost,
          exception, device_on, pc, ret, raised, state_changed,
          expected_state, timeout, stopPc, frames, handler, queued,
          delivered, cycles, sent, outcome, event>>

NoHandlers == [sigint |-> FALSE, sigterm |-> FALSE, window |-> FALSE]

\* kind: "command" (a turn_on / turn_off outside a decision cycle), "decision"
\* (a decision cycle, with its reading and the command it sent, if any),
\* "returned" / "failed" (a verification call ended), "platform" (the
\* dispatcher ran, origin being the name platform.system() gave), "none"
Event(kind, origin, cmd, reading) ==
    [kind |-> kind, origin |-> origin, cmd |-> cmd, reading |-> reading]
NoEvent == Event("none", "none", "none", NoReading)

Init ==
    /\ handle_exceptions_in_main_thread \in BOOLEAN
    /\ device_on \in BOOLEAN
    /\ finished = FALSE
    /\ connection_lost = FALSE
    /\ exception = "none"
    /\ pc = [c \in Ctx |-> IF c = "main" THEN "check" ELSE "idle"]
    /\ ret = [c \in Ctx |-> "none"]
    /\ raised = [c \in Ctx |-> "none"]
    /\ state_changed = [v \in Calls |-> FALSE]
    /\ expected_state = [v \in Calls |-> FALSE]
    /\ timeout = [v \in Calls |-> "none"]
    /\ stopPc = [k \in Ctx \cup Calls |-> "none"]
    /\ frames = << >>
    /\ handler = NoHandlers
    /\ queued = 0
    /\ delivered = 0
    /\ cycles = 0
    /\ sent = [o \in Origins \X Cmds |-> 0]
    /\ outcome = [v \in Calls |-> "none"]
    /\ event = NoEvent

\* ------------------------------------------------------- shared operators
CallOf(c) == IF c = "loop" THEN "cycle"
             ELSE IF ret[c] = "manage" THEN "main1" ELSE "main2"
After(c) == IF c = "main" THEN "handler" ELSE "wait"
NextCall(c) == IF c = "main" THEN "main2" ELSE "cycle"
\* the call v is still being executed by its context
InCall(v) == \E c \in Ctx : pc[c] \in {"test", "poll", "cancel"} /\ CallOf(c) = v

Alive == pc["loop"] \notin {"idle", "exited", "dead"}

\* the main thread runs its own code only when no handler is running in it
MainRuns == frames = << >>

\* turn_on() / turn_off(): the call is made, the plug obeys or not
Command(origin, cmd, r) ==
    /\ sent' = IF origin \in Origins
               THEN [sent EXCEPT ![<<origin, cmd>>] = @ + 1]
               ELSE sent
    /\ device_on' = IF r = "obeyed" THEN (cmd = "on") ELSE device_on

\* the except clause of run() without its line 181
RaiseSwallowed(c, e) ==
    IF c = "main"
    THEN /\ pc' = [pc EXCEPT ![c] = "raised"]
         /\ raised' = [raised EXCEPT ![c] = e]
         /\ UNCHANGED exception
    ELSE /\ exception' = IF handle_exceptions_in_main_thread THEN e ELSE exception
         /\ pc' = [pc EXCEPT ![c] = "wait"]
         /\ UNCHANGED raised

\* An exception e leaves the code of context c: out of __init__ in "main",
\* into the except clause of run() (lines 176-181) in "loop".
Raise(c, e) ==
    IF c = "main"
    THEN /\ pc' = [pc EXCEPT ![c] = "raised"]
         /\ raised' = [raised EXCEPT ![c] = e]
         /\ UNCHANGED exception
    ELSE IF handle_exceptions_in_main_thread
         THEN /\ exception' = e
              /\ pc' = [pc EXCEPT ![c] = "wait"]
              /\ UNCHANGED raised
         ELSE /\ pc' = [pc EXCEPT ![c] = "dead"]
              /\ raised' = [raised EXCEPT ![c] = e]
              /\ UNCHANGED exception

\* lines 112-115: state_changed = Event(); expected_state; Timer(...).start()
BeginVerification(c, v, target, back) ==
    /\ state_changed' = [state_changed EXCEPT ![v] = FALSE]
    /\ expected_state' = [expected_state EXCEPT ![v] = target]
    /\ timeout' = [timeout EXCEPT ![v] = "armed"]
    /\ outcome' = [outcome EXCEPT ![v] = "begun"]
    /\ pc' = [pc EXCEPT ![c] = "test"]
    /\ ret' = [ret EXCEPT ![c] = back]

\* __get_battery_state raising the same kind for both missing fields
GetBatteryStateOneKind(b) ==
    IF b.kind \in {"none", "no_ac"} THEN "battery_state" ELSE "ok"

\* __get_battery_state, lines 131-138: the kind of PowerSupplyStatusCheckError
\* raised for the reading b, "ok" when the reading is returned
GetBatteryState(b) ==
    IF b.kind = "none" THEN "battery_state"
    ELSE IF b.kind = "no_ac" THEN "ac_power_cable"
    ELSE "ok"

\* the low comparison made inclusive
DecisionInclusiveLow(percent, plugged) ==
    IF ~plugged /\ percent <= BATTERY_LOW THEN "on"
    ELSE IF plugged /\ percent >= BATTERY_HIGH THEN "off"
    ELSE "none"

\* lines 149-156: the rule of the decision cycle
Decision(percent, plugged) ==
    IF ~plugged /\ percent < BATTERY_LOW THEN "on"
    ELSE IF plugged /\ percent >= BATTERY_HIGH THEN "off"
    ELSE "none"

verification == <<state_changed, expected_state, timeout, outcome>>
params == <<handle_exceptions_in_main_thread>>
signals == <<handler, queued, delivered, frames>>
plug == <<sent, device_on>>

\* ----------------------------------------- __check_connection_to_smart_plug
\* the except clause calling stop() without line 90
CheckConnectionNoFlag(c) ==
    /\ pc[c] = "check"
    /\ c = "main" => MainRuns
    /\ \E ok \in BOOLEAN :
         IF ok
         THEN /\ pc' = [pc EXCEPT ![c] = IF c = "main" THEN "turn_off" ELSE "manage"]
              /\ UNCHANGED stopPc
         ELSE /\ stopPc' = [stopPc EXCEPT ![c] = "set"]
              /\ pc' = [pc EXCEPT ![c] = "conn_lost"]
    /\ event' = NoEvent
    /\ UNCHANGED <<params, finished, connection_lost, exception, plug, ret,
                   raised, verification, signals, cycles>>

\* lines 87-91: the state query; on failure the flag is set and stop() called
CheckConnection(c) ==
    /\ pc[c] = "check"
    /\ c = "main" => MainRuns
    /\ \E ok \in BOOLEAN :
         IF ok
         THEN /\ pc' = [pc EXCEPT ![c] = IF c = "main" THEN "turn_off" ELSE "manage"]
              /\ UNCHANGED <<connection_lost, stopPc>>
         ELSE /\ connection_lost' = TRUE
              /\ stopPc' = [stopPc EXCEPT ![c] = "set"]
              /\ pc' = [pc EXCEPT ![c] = "conn_lost"]
    /\ event' = NoEvent
    /\ UNCHANGED <<params, finished, exception, plug, ret, raised,
                   verification, signals, cycles>>

\* ------------------------------------------------------------------ stop()
\* what the Timers had done when a stop() call began: "lost" once the flag is
\* set, "fired" when a Timer has run line 107 and not yet line 108
Situation == IF connection_lost THEN "lost"
             ELSE IF \E v \in Calls : timeout[v] = "set" THEN "fired"
             ELSE "before"
\* a stop() call entered by the main thread, its line 191 done; via "signal"
\* (a signal handler, or the owner's own call) or "window" (the window
\* procedure of line 129, called by PumpWaitingMessages)
Entered(via) == [at |-> "check", began |-> Situation, via |-> via]

Top == frames[Len(frames)]
Pop == SubSeq(frames, 1, Len(frames) - 1)

\* where caller k is inside stop()
Pos(k) == IF k = "handler"
          THEN IF frames = << >> THEN "none" ELSE Top.at
          ELSE stopPc[k]

Goto(k, p) ==
    IF k = "handler"
    THEN frames' = [frames EXCEPT ![Len(frames)].at = p] /\ UNCHANGED stopPc
    ELSE stopPc' = [stopPc EXCEPT ![k] = p] /\ UNCHANGED frames

\* stop() returns to its caller: line 92 raises SmartPlugConnectionError;
\* line 110 raises SmartPlugInteractionError in the Timer thread, which ends
\* with it; a handler returns to the code it interrupted.
StopReturns(k) ==
    IF k \in Ctx
    THEN /\ Raise(k, "SmartPlugConnectionError")
         /\ stopPc' = [stopPc EXCEPT ![k] = "none"]
         /\ UNCHANGED <<timeout, frames>>
    ELSE IF k \in Calls
    THEN /\ timeout' = [timeout EXCEPT ![k] = "none"]
         /\ stopPc' = [stopPc EXCEPT ![k] = "none"]
         /\ UNCHANGED <<pc, raised, exception, frames>>
    ELSE /\ frames' = Pop
         /\ UNCHANGED <<pc, raised, exception, timeout, stopPc>>

\* turn_off() failed inside stop(): the driver's exception leaves the caller;
\* out of a signal handler it unwinds the main thread, frames under it
\* included, up to a window procedure, where win32gui reports it and drops it
\* (PumpWaitingMessages returns), or else out of the owner's code
StopRaises(k) ==
    IF k \in Ctx
    THEN /\ Raise(k, "DriverError")
         /\ stopPc' = [stopPc EXCEPT ![k] = "none"]
         /\ UNCHANGED <<timeout, frames>>
    ELSE IF k \in Calls
    THEN /\ timeout' = [timeout EXCEPT ![k] = "none"]
         /\ stopPc' = [stopPc EXCEPT ![k] = "none"]
         /\ UNCHANGED <<pc, raised, exception, frames>>
    ELSE IF frames[1].via = "window"
    THEN /\ frames' = << >>
         /\ UNCHANGED <<pc, raised, exception, timeout, stopPc>>
    ELSE /\ frames' = << >>
         /\ pc' = [pc EXCEPT !["main"] = "raised"]
         /\ raised' = [raised EXCEPT !["main"] = "DriverError"]
         /\ UNCHANGED <<exception, timeout, stopPc>>

\* line 191, by __check_connection_to_smart_plug or interaction_lost
StopSetFlag(k) ==
    /\ Pos(k) = "set"
    /\ finished' = TRUE
    /\ Goto(k, "check")
    /\ event' = NoEvent
    /\ UNCHANGED <<params, connection_lost, exception, plug, pc, ret,
                   raised, verification, handler, queued, delivered, cycles>>

\* stop() without the test of line 192
StopReadFlagIgnored(k) ==
    /\ Pos(k) = "check"
    /\ Goto(k, "off")
    /\ event' = NoEvent
    /\ UNCHANGED <<params, finished, connection_lost, plug, ret, pc, raised,
                   exception, verification, handler, queued, delivered,
                   cycles>>

\* line 192
StopReadFlag(k) ==
    /\ Pos(k) = "check"
    /\ IF ~connection_lost
       THEN /\ Goto(k, "off")
            /\ UNCHANGED <<pc, raised, exception, timeout>>
       ELSE StopReturns(k)
    /\ event' = NoEvent
    /\ UNCHANGED <<params, finished, connection_lost, plug, ret,
                   state_changed, expected_state, outcome, handler, queued,
                   delivered, cycles>>

\* line 193
StopTurnOff(k) ==
    /\ Pos(k) = "off"
    /\ \E r \in DriverResults :
         /\ Command("stop", "off", r)
         /\ IF r = "error" THEN StopRaises(k) ELSE StopReturns(k)
    /\ event' = Event("command", "stop", "off", NoReading)
    /\ UNCHANGED <<params, finished, connection_lost, ret, state_changed,
                   expected_state, outcome, handler, queued, delivered,
                   cycles>>

\* ------------------------------------------------ __check_smart_plug_state
\* the loop test of line 116 also leaving on the stop flag
TestStateChangedOrFinished(c) ==
    /\ pc[c] = "test"
    /\ c = "main" => MainRuns
    /\ pc' = [pc EXCEPT ![c] = IF state_changed[CallOf(c)] \/ finished
                               THEN "cancel" ELSE "poll"]
    /\ event' = NoEvent
    /\ UNCHANGED <<params, finished, connection_lost, exception, plug,
                   ret, raised, verification, stopPc, signals, cycles>>

\* line 116: the loop test reads the call's Event
TestStateChanged(c) ==
    /\ pc[c] = "test"
    /\ c = "main" => MainRuns
    /\ pc' = [pc EXCEPT ![c] = IF state_changed[CallOf(c)] THEN "cancel" ELSE "poll"]
    /\ event' = NoEvent
    /\ UNCHANGED <<params, finished, connection_lost, exception, plug,
                   ret, raised, verification, stopPc, signals, cycles>>

\* lines 117-119: one poll of is_on; a driver failure leaves the call with
\* its Timer still armed
Poll(c) ==
    /\ pc[c] = "poll"
    /\ c = "main" => MainRuns
    /\ \E ok \in BOOLEAN :
         LET v == CallOf(c) IN
         IF ok
         THEN /\ IF device_on = expected_state[v]
                 THEN /\ state_changed' = [state_changed EXCEPT ![v] = TRUE]
                      /\ outcome' = [outcome EXCEPT ![v] =
                             IF timeout[v] = "armed" THEN "matched"
                             ELSE IF @ = "begun" THEN "polling" ELSE @]
                 ELSE /\ outcome' = [outcome EXCEPT ![v] =
                             IF @ = "begun" THEN "polling" ELSE @]
                      /\ UNCHANGED state_changed
              /\ pc' = [pc EXCEPT ![c] = "test"]
              /\ event' = NoEvent
              /\ UNCHANGED <<raised, exception, expected_state>>
         ELSE /\ Raise(c, "DriverError")
              /\ state_changed' = [state_changed EXCEPT ![v] = FALSE]
              /\ expected_state' = [expected_state EXCEPT ![v] = FALSE]
              /\ event' = Event("failed", v, "none", NoReading)
              /\ outcome' = [outcome EXCEPT ![v] = "failed"]
    /\ UNCHANGED <<params, finished, connection_lost, plug, ret, timeout,
                   stopPc, signals, cycles>>

\* lines 120-121: timeout.cancel() stops a Timer that has not expired, then
\* the call returns to its caller and its locals are gone
CancelAndReturn(c) ==
    /\ pc[c] = "cancel"
    /\ c = "main" => MainRuns
    /\ LET v == CallOf(c) IN
         /\ timeout' = [timeout EXCEPT ![v] = IF @ = "armed" THEN "none" ELSE @]
         /\ state_changed' = [state_changed EXCEPT ![v] = FALSE]
         /\ expected_state' = [expected_state EXCEPT ![v] = FALSE]
         /\ outcome' = [outcome EXCEPT ![v] =
                           IF @ = "matched" THEN @ ELSE "timed_out"]
         /\ event' = Event("returned", v, "none", NoReading)
    /\ pc' = [pc EXCEPT ![c] = ret[c]]
    /\ UNCHANGED <<params, finished, connection_lost, exception, plug,
                   ret, raised, stopPc, signals, cycles>>

\* The Timer of call v was started (line 115) right before the first loop
\* test of line 116, which the calling context has not run yet: with
\* STATE_CHANGE_TIMEOUT > 0 the delay has not elapsed.
FirstTestPending(v) ==
    \E c \in Ctx : pc[c] = "test" /\ CallOf(c) = v /\ outcome[v] = "begun"

\* interaction_lost without line 107
TimerFiresSilent(v) ==
    /\ timeout[v] = "armed"
    /\ STATE_CHANGE_TIMEOUT > 0 => ~FirstTestPending(v)
    /\ timeout' = [timeout EXCEPT ![v] = "set"]
    /\ event' = NoEvent
    /\ UNCHANGED <<params, finished, connection_lost, exception, plug,
                   pc, ret, raised, state_changed, expected_state, outcome,
                   stopPc, signals, cycles>>

\* interaction_lost, line 107, run by the Timer thread once the delay elapsed
\* (the Event of a call that has ended is read by nobody)
TimerFires(v) ==
    /\ timeout[v] = "armed"
    /\ STATE_CHANGE_TIMEOUT > 0 => ~FirstTestPending(v)
    /\ state_changed' = [state_changed EXCEPT ![v] = InCall(v)]
    /\ timeout' = [timeout EXCEPT ![v] = "set"]
    /\ event' = NoEvent
    /\ UNCHANGED <<params, finished, connection_lost, exception, plug,
                   pc, ret, raised, expected_state, outcome, stopPc, signals,
                   cycles>>

\* interaction_lost without its call of stop(), line 109
TimerLostNoStop(v) ==
    /\ timeout[v] = "set"
    /\ connection_lost' = TRUE
    /\ timeout' = [timeout EXCEPT ![v] = "none"]
    /\ event' = NoEvent
    /\ UNCHANGED <<params, finished, exception, plug, pc, ret, raised,
                   state_changed, expected_state, outcome, stopPc, signals,
                   cycles>>

\* interaction_lost calling stop() without line 108
TimerLostNoFlag(v) ==
    /\ timeout[v] = "set"
    /\ timeout' = [timeout EXCEPT ![v] = "lost"]
    /\ stopPc' = [stopPc EXCEPT ![v] = "set"]
    /\ event' = NoEvent
    /\ UNCHANGED <<params, finished, connection_lost, exception, plug, pc,
                   ret, raised, state_changed, expected_state, outcome,
                   signals, cycles>>

\* interaction_lost, lines 108-109: the flag, then the call of stop()
TimerLost(v) ==
    /\ timeout[v] = "set"
    /\ connection_lost' = TRUE
    /\ timeout' = [timeout EXCEPT ![v] = "lost"]
    /\ stopPc' = [stopPc EXCEPT ![v] = "set"]
    /\ event' = NoEvent
    /\ UNCHANGED <<params, finished, exception, plug, pc, ret, raised,
                   state_changed, expected_state, outcome, signals, cycles>>

\* ---------------------------------------------------------------- __init__
\* lines 53-55: the forced turn_off and the start of its verification
ForceOff ==
    /\ pc["main"] = "turn_off"
    /\ MainRuns
    /\ \E r \in DriverResults :
         /\ Command("main", "off", r)
         /\ IF r = "error"
            THEN Raise("main", "DriverError") /\ UNCHANGED <<verification, ret>>
            ELSE /\ BeginVerification("main", "main1", FALSE, "manage")
                 /\ UNCHANGED <<raised, exception>>
    /\ event' = Event("command", "main", "off", NoReading)
    /\ UNCHANGED <<params, finished, connection_lost, stopPc, signals, cycles>>

\* __manage_power_supply skipping the command the plug already complies with
ManagePowerSupplyCached(c, b) ==
    /\ pc[c] = "manage"
    /\ c = "main" => MainRuns
    /\ IF GetBatteryState(b) # "ok"
       THEN /\ Raise(c, GetBatteryState(b))
            /\ event' = Event("decision", c, "none", b)
            /\ UNCHANGED <<verification, ret, plug>>
       ELSE LET rule == Decision(b.percent, b.plugged)
                cmd == IF rule # "none" /\ device_on = (rule = "on")
                       THEN "none" ELSE rule
            IN
            /\ event' = Event("decision", c, cmd, b)
            /\ IF cmd = "none"
               THEN /\ pc' = [pc EXCEPT ![c] = After(c)]
                    /\ UNCHANGED <<raised, exception, verification, ret, plug>>
               ELSE \E r \in DriverResults :
                      /\ Command(c, cmd, r)
                      /\ IF r = "error"
                         THEN Raise(c, "DriverError") /\ UNCHANGED <<verification, ret>>
                         ELSE /\ BeginVerification(c, NextCall(c), cmd = "on", After(c))
                              /\ UNCHANGED <<raised, exception>>
    /\ UNCHANGED <<params, finished, connection_lost, stopPc, signals, cycles>>

\* __manage_power_supply verifying "off" after turn_on and "on" after turn_off
ManagePowerSupplySwapped(c, b) ==
    /\ pc[c] = "manage"
    /\ c = "main" => MainRuns
    /\ IF GetBatteryState(b) # "ok"
       THEN /\ Raise(c, GetBatteryState(b))
            /\ event' = Event("decision", c, "none", b)
            /\ UNCHANGED <<verification, ret, plug>>
       ELSE LET cmd == Decision(b.percent, b.plugged) IN
            /\ event' = Event("decision", c, cmd, b)
            /\ IF cmd = "none"
               THEN /\ pc' = [pc EXCEPT ![c] = After(c)]
                    /\ UNCHANGED <<raised, exception, verification, ret, plug>>
               ELSE \E r \in DriverResults :
                      /\ Command(c, cmd, r)
                      /\ IF r = "error"
                         THEN Raise(c, "DriverError") /\ UNCHANGED <<verification, ret>>
                         ELSE /\ BeginVerification(c, NextCall(c), cmd = "off", After(c))
                              /\ UNCHANGED <<raised, exception>>
    /\ UNCHANGED <<params, finished, connection_lost, stopPc, signals, cycles>>

\* __manage_power_supply, lines 147-156, with __get_battery_state (131-138);
\* called by __init__ (line 56) and by run() (line 175)
ManagePowerSupply(c, b) ==
    /\ pc[c] = "manage"
    /\ c = "main" => MainRuns
    /\ IF GetBatteryState(b) # "ok"
       THEN /\ Raise(c, GetBatteryState(b))
            /\ event' = Event("decision", c, "none", b)
            /\ UNCHANGED <<verification, ret, plug>>
       ELSE LET cmd == Decision(b.percent, b.plugged) IN
            /\ event' = Event("decision", c, cmd, b)
            /\ IF cmd = "none"
               THEN /\ pc' = [pc EXCEPT ![c] = After(c)]
                    /\ UNCHANGED <<raised, exception, verification, ret, plug>>
               ELSE \E r \in DriverResults :
                      /\ Command(c, cmd, r)
                      /\ IF r = "error"
                         THEN Raise(c, "DriverError") /\ UNCHANGED <<verification, ret>>
                         ELSE /\ BeginVerification(c, NextCall(c), cmd = "on", After(c))
                              /\ UNCHANGED <<raised, exception>>
    /\ UNCHANGED <<params, finished, connection_lost, stopPc, signals, cycles>>

\* the Windows handler built without the constructor of lines 64-69
InstallHandlersNoSigint(name) ==
    /\ pc["main"] = "handler"
    /\ MainRuns
    /\ IF name = "Windows"
       THEN \E created \in BOOLEAN :
              IF created
              THEN /\ handler' = [sigint |-> FALSE, sigterm |-> FALSE, window |-> TRUE]
                   /\ pc' = [pc EXCEPT !["main"] = "ready"]
                   /\ UNCHANGED raised
              ELSE /\ pc' = [pc EXCEPT !["main"] = "raised"]
                   /\ raised' = [raised EXCEPT !["main"] = "pywintypes.error"]
                   /\ UNCHANGED handler
       ELSE IF name \in {"Linux", "Darwin"}
       THEN /\ handler' = [sigint |-> TRUE, sigterm |-> TRUE, window |-> FALSE]
            /\ pc' = [pc EXCEPT !["main"] = "ready"]
            /\ UNCHANGED raised
       ELSE /\ pc' = [pc EXCEPT !["main"] = "raised"]
            /\ raised' = [raised EXCEPT !["main"] = "UnsupportedSystemError"]
            /\ UNCHANGED handler
    /\ event' = Event("platform", name, "none", NoReading)
    /\ UNCHANGED <<params, finished, connection_lost, exception, plug,
                   ret, verification, stopPc, queued, delivered, frames,
                   cycles>>

\* the SIGINT handler registered before the platform is looked at
InstallHandlersPartial(name) ==
    /\ pc["main"] = "handler"
    /\ MainRuns
    /\ IF name = "Windows"
       THEN \E created \in BOOLEAN :
              IF created
              THEN /\ handler' = [sigint |-> TRUE, sigterm |-> FALSE, window |-> TRUE]
                   /\ pc' = [pc EXCEPT !["main"] = "ready"]
                   /\ UNCHANGED raised
              ELSE /\ handler' = [sigint |-> TRUE, sigterm |-> FALSE, window |-> FALSE]
                   /\ pc' = [pc EXCEPT !["main"] = "raised"]
                   /\ raised' = [raised EXCEPT !["main"] = "pywintypes.error"]
       ELSE IF name \in {"Linux", "Darwin"}
       THEN /\ handler' = [sigint |-> TRUE, sigterm |-> TRUE, window |-> FALSE]
            /\ pc' = [pc EXCEPT !["main"] = "ready"]
            /\ UNCHANGED raised
       ELSE /\ pc' = [pc EXCEPT !["main"] = "raised"]
            /\ raised' = [raised EXCEPT !["main"] = "UnsupportedSystemError"]
            /\ handler' = [handler EXCEPT !.sigint = TRUE]
    /\ event' = Event("platform", name, "none", NoReading)
    /\ UNCHANGED <<params, finished, connection_lost, exception, plug,
                   ret, verification, stopPc, queued, delivered, frames,
                   cycles>>

\* line 57: set_interrupt_event_handler (lines 41-49) on the platform `name`
\* and the handlers' constructors (lines 64-69, 83, 116-143, 169, 195); on
\* Windows the SIGINT handler is registered (line 68) before the window class
\* and the hidden window are created (line 69, lines 124-143), which win32gui
\* refuses with pywintypes.error, for one, when the class name is registered
\* in the process already
InstallHandlers(name) ==
    /\ pc["main"] = "handler"
    /\ MainRuns
    /\ IF name = "Windows"
       THEN \E created \in BOOLEAN :
              IF created
              THEN /\ handler' = [sigint |-> TRUE, sigterm |-> FALSE, window |-> TRUE]
                   /\ pc' = [pc EXCEPT !["main"] = "ready"]
                   /\ UNCHANGED raised
              ELSE /\ handler' = [sigint |-> TRUE, sigterm |-> FALSE, window |-> FALSE]
                   /\ pc' = [pc EXCEPT !["main"] = "raised"]
                   /\ raised' = [raised EXCEPT !["main"] = "pywintypes.error"]
       ELSE IF name \in {"Linux", "Darwin"}
       THEN /\ handler' = [sigint |-> TRUE, sigterm |-> TRUE, window |-> FALSE]
            /\ pc' = [pc EXCEPT !["main"] = "ready"]
            /\ UNCHANGED raised
       ELSE /\ pc' = [pc EXCEPT !["main"] = "raised"]
            /\ raised' = [raised EXCEPT !["main"] = "UnsupportedSystemError"]
            /\ UNCHANGED handler
    /\ event' = Event("platform", name, "none", NoReading)
    /\ UNCHANGED <<params, finished, connection_lost, exception, plug,
                   ret, verification, stopPc, queued, delivered, frames,
                   cycles>>

\* ------------------------------------------------------- the owner (script)
\* Thread.start(), launch script line 26
Start ==
    /\ pc["main"] = "ready"
    /\ MainRuns
    /\ pc' = [pc EXCEPT !["main"] = "polling", !["loop"] = "wait"]
    /\ event' = NoEvent
    /\ UNCHANGED <<params, finished, connection_lost, exception, plug,
                   ret, raised, verification, stopPc, signals, cycles>>

\* the window class registered without its WM_QUERYENDSESSION entry: the
\* pumped message is dropped
CheckEventsUnhandled ==
    /\ pc["main"] = "polling"
    /\ MainRuns
    /\ handler.window /\ queued > 0
    /\ queued' = queued - 1
    /\ event' = NoEvent
    /\ UNCHANGED <<params, finished, connection_lost, exception, plug, pc,
                   ret, raised, verification, stopPc, handler, delivered,
                   frames, cycles>>

\* is_running, line 72 on Windows: PumpWaitingMessages hands a queued
\* WM_QUERYENDSESSION to the window procedure (line 129), which calls stop()
\* and runs its line 191
CheckEvents ==
    /\ pc["main"] = "polling"
    /\ MainRuns
    /\ handler.window /\ queued > 0
    /\ queued' = queued - 1
    /\ finished' = TRUE
    /\ frames' = Append(frames, Entered("window"))
    /\ event' = NoEvent
    /\ UNCHANGED <<params, connection_lost, exception, plug, pc, ret,
                   raised, verification, stopPc, handler, delivered, cycles>>

\* is_running, line 73, returning False with no message left to pump: the
\* script leaves its while loop (launch script lines 30-31)
IsRunningFalse ==
    /\ pc["main"] = "polling"
    /\ MainRuns
    /\ ~(handler.window /\ queued > 0)
    /\ ~Alive
    /\ pc' = [pc EXCEPT !["main"] = "join"]
    /\ event' = NoEvent
    /\ UNCHANGED <<params, finished, connection_lost, exception, plug,
                   ret, raised, verification, stopPc, signals, cycles>>

\* join(), launch script line 33
Join ==
    /\ pc["main"] = "join"
    /\ MainRuns
    /\ ~Alive
    /\ pc' = [pc EXCEPT !["main"] = "joined"]
    /\ event' = NoEvent
    /\ UNCHANGED <<params, finished, connection_lost, exception, plug,
                   ret, raised, verification, stopPc, signals, cycles>>

\* launch script lines 35-37
CheckException ==
    /\ pc["main"] = "joined"
    /\ MainRuns
    /\ IF exception # "none"
       THEN /\ pc' = [pc EXCEPT !["main"] = "raised"]
            /\ raised' = [raised EXCEPT !["main"] = exception]
       ELSE /\ pc' = [pc EXCEPT !["main"] = "done"]
            /\ UNCHANGED raised
    /\ event' = NoEvent
    /\ UNCHANGED <<params, finished, connection_lost, exception, plug,
                   ret, verification, stopPc, signals, cycles>>

\* ------------------------------------------------------ interrupt delivery
Constructed == pc["main"] \in {"ready", "polling", "join", "joined"}

\* SIGINT or SIGTERM with the lambda of line 83, 169 or 195 registered: the
\* main thread calls stop() and runs its line 191, also while it is inside an
\* earlier handler; "direct" is a call of stop() by the owner's own code.
\* A signal is delivered to the handler the process has registered, from line
\* 57 on: during the rest of the construction and after it raised (no loop
\* thread started) as well as to the constructed controller.
Deliver(sig) ==
    /\ Constructed \/ pc["loop"] = "idle"
    /\ delivered < MaxStops
    /\ \/ sig = "sigint" /\ handler.sigint
       \/ sig = "sigterm" /\ handler.sigterm
       \/ sig = "direct" /\ Constructed /\ MainRuns
    /\ delivered' = delivered + 1
    /\ finished' = TRUE
    /\ frames' = Append(frames, Entered("signal"))
    /\ event' = NoEvent
    /\ UNCHANGED <<params, connection_lost, exception, plug, pc, ret,
                   raised, verification, stopPc, handler, queued, cycles>>

\* the session-end message is posted to the hidden window of lines 124-143
PostShutdownMessage ==
    /\ Constructed
    /\ delivered < MaxStops
    /\ handler.window
    /\ delivered' = delivered + 1
    /\ queued' = queued + 1
    /\ event' = NoEvent
    /\ UNCHANGED <<params, finished, connection_lost, exception, plug,
                   pc, ret, raised, verification, stopPc, handler, frames,
                   cycles>>

\* ------------------------------------------------------------------ run()
\* Every Timer was armed before this wait began and STATE_CHANGE_TIMEOUT <
\* REFRESH_TIME: it expires, and its callback runs, before the wait can time
\* out.
TimerPending == \E v \in Calls : timeout[v] # "none"

\* the iteration going on without line 172
WaitTimesOutUnchecked ==
    /\ pc["loop"] = "wait"
    /\ STATE_CHANGE_TIMEOUT < REFRESH_TIME => ~TimerPending
    /\ cycles < MaxCycles
    /\ cycles' = cycles + 1
    /\ pc' = [pc EXCEPT !["loop"] = "check"]
    /\ event' = NoEvent
    /\ UNCHANGED <<params, finished, connection_lost, exception, plug, ret,
                   raised, verification, stopPc, signals>>

\* lines 171-172: the wait timed out and the Event is not set
WaitTimesOut ==
    /\ pc["loop"] = "wait"
    /\ ~finished
    /\ STATE_CHANGE_TIMEOUT < REFRESH_TIME => ~TimerPending
    /\ cycles < MaxCycles
    /\ cycles' = cycles + 1
    /\ pc' = [pc EXCEPT !["loop"] = "check"]
    /\ event' = NoEvent
    /\ UNCHANGED <<params, finished, connection_lost, exception, plug,
                   ret, raised, verification, stopPc, signals>>

\* lines 171-172, 182-183: the Event is set, break
WaitWoken ==
    /\ pc["loop"] = "wait"
    /\ finished
    /\ pc' = [pc EXCEPT !["loop"] = "exited"]
    /\ event' = NoEvent
    /\ UNCHANGED <<params, finished, connection_lost, exception, plug,
                   ret, raised, verification, stopPc, signals, cycles>>

\* ------------------------------------------------------------ specification
Next ==
    \/ \E c \in Ctx : CheckConnection(c)
    \/ \E k \in Callers : StopSetFlag(k)
    \/ \E k \in Callers : StopReadFlag(k)
    \/ \E k \in Callers : StopTurnOff(k)
    \/ \E c \in Ctx : TestStateChanged(c)
    \/ \E c \in Ctx : Poll(c)
    \/ \E c \in Ctx : CancelAndReturn(c)
    \/ \E v \in Calls : TimerFires(v)
    \/ \E v \in Calls : TimerLost(v)
    \/ ForceOff
    \/ \E c \in Ctx, b \in Readings(BoundaryPercents) : ManagePowerSupply(c, b)
    \/ \E name \in Systems : InstallHandlers(name)
    \/ Start
    \/ CheckEvents
    \/ IsRunningFalse
    \/ Join
    \/ CheckException
    \/ \E sig \in {"sigint", "sigterm", "direct"} : Deliver(sig)
    \/ PostShutdownMessage
    \/ WaitTimesOut
    \/ WaitWoken

Spec == Init /\ [][Next]_vars

TypeOK ==
    /\ finished \in BOOLEAN /\ connection_lost \in BOOLEAN
    /\ device_on \in BOOLEAN
    /\ cycles \in 0..MaxCycles /\ delivered \in 0..MaxStops
    /\ queued \in 0..MaxStops /\ Len(frames) <= MaxStops
    /\ \A o \in Origins \X Cmds : sent[o] \in 0..(MaxCycles + MaxStops)

\* ---------------------------------------------- the decision cycle alone
\* A decision cycle about to read the sensor: the one of __init__ (line 56,
\* after the forced turn_off was verified) or one of run() (line 175), with
\* every reading the sensor can give.
InitDecision ==
    /\ handle_exceptions_in_main_thread \in BOOLEAN
    /\ device_on = FALSE
    /\ finished = FALSE
    /\ connection_lost = FALSE
    /\ exception = "none"
    /\ \/ /\ pc = [c \in Ctx |-> IF c = "main" THEN "manage" ELSE "idle"]
          /\ handler = NoHandlers
          /\ cycles = 0
          /\ event = Event("returned", "main1", "none", NoReading)
       \/ /\ pc = [c \in Ctx |-> IF c = "main" THEN "polling" ELSE "manage"]
          /\ handler = [sigint |-> TRUE, sigterm |-> TRUE, window |-> FALSE]
          /\ cycles = 1
          /\ event = NoEvent
    /\ ret = [c \in Ctx |-> IF c = "main" THEN "manage" ELSE "none"]
    /\ outcome = [v \in Calls |-> IF v = "main1" THEN "matched" ELSE "none"]
    /\ raised = [c \in Ctx |-> "none"]
    /\ state_changed = [v \in Calls |-> FALSE]
    /\ expected_state = [v \in Calls |-> FALSE]
    /\ timeout = [v \in Calls |-> "none"]
    /\ stopPc = [k \in Ctx \cup Calls |-> "none"]
    /\ frames = << >>
    /\ queued = 0
    /\ delivered = 0
    /\ sent = [o \in Origins \X Cmds |-> IF o = <<"main", "off">> THEN 1 ELSE 0]

NextDecision == \E c \in Ctx, b \in Readings(Percents) : ManagePowerSupply(c, b)

SpecDecision == InitDecision /\ [][NextDecision]_vars

\* ------------------------------------------------------------------ claims
Snapshot == event.reading

\* C1: a decision cycle that read the snapshot (percent, plugged) sent turn_on
\* exactly when the laptop is unplugged and percent < BATTERY_LOW, turn_off
\* exactly when it is plugged and percent >= BATTERY_HIGH, and nothing
\* otherwise; it never sent both.
C1_DecisionRule ==
    (event.kind = "decision" /\ Snapshot.kind = "ok") =>
        /\ Snapshot.percent \in Percents
        /\ (event.cmd = "on") <=>
               (~Snapshot.plugged /\ Snapshot.percent < BATTERY_LOW)
        /\ (event.cmd = "off") <=>
               (Snapshot.plugged /\ Snapshot.percent >= BATTERY_HIGH)
        /\ (event.cmd = "none") <=>
               ~ \/ (~Snapshot.plugged /\ Snapshot.percent < BATTERY_LOW)
                 \/ (Snapshot.plugged /\ Snapshot.percent >= BATTERY_HIGH)
        /\ (Snapshot.percent = BATTERY_LOW /\ ~Snapshot.plugged) => event.cmd = "none"
        /\ (Snapshot.percent = BATTERY_HIGH /\ Snapshot.plugged) => event.cmd = "off"

\* a cycle has read (BATTERY_LOW, unplugged), the strict boundary
C1_Witness ==
    /\ event.kind = "decision"
    /\ Snapshot = [kind |-> "ok", percent |-> BATTERY_LOW, plugged |-> FALSE]
    /\ event.cmd = "none"

CommandSent == event.cmd # "none"

\* C2: no turn_on or turn_off is issued in a state where the connection-lost
\* flag is set (by the rest of __init__, by run(), or by a stop()).
C2_NoCommandOnceLost == CommandSent => ~connection_lost

\* C3: a verification call returns normally only when one of its polls saw
\* the target while its Timer had not fired; after the Timer fired first the
\* call does not return as a success.
C3_ReturnsOnlyOnMatch ==
    event.kind = "returned" => outcome[event.origin] = "matched"

\* C4: over any sequence or nesting of stop() calls, stop() sends at most one
\* turn_off in total.
C4_AtMostOneShutdownOff == sent[<<"stop", "off">>] <= 1

\* C5 as stated: the Timer's own stop(), and every stop() that begins after a
\* Timer has fired (its callback has started), sends no turn_off.
C5_NoOffOnceFired ==
    /\ \A v \in Calls : stopPc[v] # "off"
    /\ \A i \in DOMAIN frames :
         frames[i].began \in {"fired", "lost"} => frames[i].at # "off"

\* C5, amended: the callback sets the connection-lost flag before it calls
\* stop(); its own stop() sets the stop flag and sends no turn_off, and so
\* does every stop() that begins once the flag is set.
C5_NoOffOnceFlagSet ==
    /\ \A v \in Calls :
         /\ timeout[v] = "lost" => connection_lost
         /\ stopPc[v] # "none" => timeout[v] = "lost"
         /\ stopPc[v] = "check" => finished
         /\ stopPc[v] # "off"
    /\ \A i \in DOMAIN frames :
         frames[i].began = "lost" => (finished /\ frames[i].at # "off")

\* the callback of the loop's Timer is inside stop(), stop flag set, while a
\* handler's stop() that began after the flag was set is at its line 192
C5_Witness ==
    /\ timeout["cycle"] = "lost" /\ stopPc["cycle"] = "check"
    /\ frames # << >>
    /\ Top.at = "check" /\ Top.began = "lost"

NothingStarted ==
    /\ \A o \in Origins \X Cmds : sent[o] = 0
    /\ ~CommandSent
    /\ pc["loop"] = "idle"
    /\ \A v \in Calls : timeout[v] = "none"
    /\ handler = NoHandlers /\ frames = << >> /\ queued = 0

\* __init__ has raised the SmartPlugConnectionError of line 92 (the script's
\* re-raise of line 36 comes with a filled slot)
ConstructionUnreachable ==
    /\ pc["main"] = "raised"
    /\ raised["main"] = "SmartPlugConnectionError"
    /\ exception = "none"

\* C6: when the state query of __init__ fails, __init__ raises the
\* connectivity error and, then, no turn_on / turn_off was sent, no loop
\* thread and no Timer runs, and no handler is installed.
C6_UnreachableAtConstruction ==
    /\ [](pc["main"] = "conn_lost" \/ ConstructionUnreachable => NothingStarted)
    /\ [][pc["main"] = "conn_lost" /\ pc'["main"] # "conn_lost"
             => ConstructionUnreachable']_vars

C6_Witness == ConstructionUnreachable /\ connection_lost /\ finished

\* C7: __init__ returns normally only if a poll saw the plug off, after the
\* forced turn_off, before the Timer of that verification fired.
C7_ReadyOnlyIfVerifiedOff ==
    pc["main"] = "ready" => outcome["main1"] = "matched"

\* C8: in deferred mode, when the loop has ended after a loop-time failure set
\* the connection-lost flag (every Timer of __init__ is over before the first
\* iteration, see WaitTimesOut), the slot holds an error once join() returned.
C8_DeferredErrorHeld ==
    (handle_exceptions_in_main_thread /\ pc["main"] = "joined"
        /\ cycles >= 1 /\ connection_lost)
    => exception # "none"

\* C9: once the deferred-error slot holds an error, no step replaces it.
C9_SlotWrittenOnce == [][exception # "none" => exception' = exception]_vars

\* C10: with the stop flag set while the loop is not started or in its wait,
\* the loop's next step is the break: no connectivity check, no decision
\* cycle, no command of the loop follows.
C10_StopDuringWait ==
    [][(finished /\ pc["loop"] \in {"idle", "wait", "exited"})
         => /\ pc'["loop"] \in {"idle", "wait", "exited"}
            /\ pc["loop"] = "wait" /\ pc'["loop"] # "wait" => pc'["loop"] = "exited"
            /\ ~(event'.cmd # "none" /\ event'.origin = "loop")]_vars

\* stop() came before the first wait ended: the loop has exited with no cycle
C10_Witness ==
    /\ pc["loop"] = "exited" /\ cycles = 0
    /\ delivered >= 1 /\ ~connection_lost


\* ------------------------------------------------------------------ fairness
\* Scheduling: a thread that can take its next step takes it, and a Timer
\* whose delay has elapsed runs its callback.
LoopStep ==
    \/ CheckConnection("loop")
    \/ \E b \in Readings(BoundaryPercents) : ManagePowerSupply("loop", b)
    \/ TestStateChanged("loop") \/ Poll("loop") \/ CancelAndReturn("loop")
    \/ StopSetFlag("loop") \/ StopReadFlag("loop") \/ StopTurnOff("loop")
    \/ WaitTimesOut \/ WaitWoken

TimerStep(v) ==
    \/ TimerFires(v) \/ TimerLost(v)
    \/ StopSetFlag(v) \/ StopReadFlag(v) \/ StopTurnOff(v)

\* the main thread: a running handler first, then the owner's own code
MainStep ==
    \/ StopSetFlag("handler") \/ StopReadFlag("handler") \/ StopTurnOff("handler")
    \/ CheckEvents \/ IsRunningFalse \/ Join \/ CheckException

Fairness ==
    /\ WF_vars(LoopStep)
    /\ \A v \in Calls : WF_vars(TimerStep(v))
    /\ WF_vars(MainStep)

\* ------------------------------------------------- the started controller
\* The controller right after start() (launch script line 26), __init__ having
\* verified the forced turn_off and its decision cycle having sent no command
\* (the plug is off); on Windows or on Linux / macOS.
InitRun ==
    /\ handle_exceptions_in_main_thread \in BOOLEAN
    /\ finished = FALSE
    /\ connection_lost = FALSE
    /\ exception = "none"
    /\ pc = [c \in Ctx |-> IF c = "main" THEN "polling" ELSE "wait"]
    /\ raised = [c \in Ctx |-> "none"]
    /\ state_changed = [v \in Calls |-> FALSE]
    /\ expected_state = [v \in Calls |-> FALSE]
    /\ timeout = [v \in Calls |-> "none"]
    /\ stopPc = [k \in Ctx \cup Calls |-> "none"]
    /\ frames = << >>
    /\ handler \in {[sigint |-> TRUE, sigterm |-> FALSE, window |-> TRUE],
                    [sigint |-> TRUE, sigterm |-> TRUE, window |-> FALSE]}
    /\ queued = 0
    /\ delivered = 0
    /\ cycles = 0
    /\ event = NoEvent
    /\ device_on = FALSE
    /\ ret = [c \in Ctx |-> IF c = "main" THEN "manage" ELSE "none"]
    /\ outcome = [v \in Calls |-> IF v = "main1" THEN "matched" ELSE "none"]
    /\ sent = [o \in Origins \X Cmds |-> IF o = <<"main", "off">> THEN 1 ELSE 0]

NextRun ==
    \/ \E c \in Ctx : CheckConnection(c)
    \/ \E k \in Callers : StopSetFlag(k)
    \/ \E k \in Callers : StopReadFlag(k)
    \/ \E k \in Callers : StopTurnOff(k)
    \/ \E c \in Ctx : TestStateChanged(c)
    \/ \E c \in Ctx : Poll(c)
    \/ \E c \in Ctx : CancelAndReturn(c)
    \/ \E v \in Calls : TimerFires(v)
    \/ \E v \in Calls : TimerLost(v)
    \/ \E c \in Ctx, b \in Readings(BoundaryPercents) : ManagePowerSupply(c, b)
    \/ CheckEvents
    \/ IsRunningFalse
    \/ Join
    \/ CheckException
    \/ \E sig \in {"sigint", "sigterm", "direct"} : Deliver(sig)
    \/ PostShutdownMessage
    \/ WaitTimesOut
    \/ WaitWoken

SpecRun == InitRun /\ [][NextRun]_vars /\ Fairness

\* C11: under fair scheduling, once the stop flag is set on a started
\* controller the loop thread ends, and join() returns once it has ended (the
\* owner of the launch script calls it then); no iteration begins once the
\* flag is set, only the decision cycle in flight is completed.
C11_StopEndsLoop ==
    /\ (finished /\ Alive) ~> ~Alive
    /\ [](pc["main"] = "join" => ~Alive)
    /\ []((pc["main"] = "join" /\ MainRuns) => ENABLED Join)
    /\ [][finished => cycles' = cycles]_vars

\* a stop request arrived while a decision cycle was being verified; the loop
\* has exited and the owner's join() has returned
C11_Witness ==
    /\ pc["loop"] = "exited" /\ pc["main"] = "joined"
    /\ cycles >= 1 /\ delivered >= 1 /\ outcome["cycle"] = "matched"


InVerification == pc["loop"] \in {"test", "poll", "cancel"}

\* C12 as stated: with a stop request made, the loop leaves the poll loop of a
\* verification only towards its return (line 120), the call's Event having
\* been set by a matching poll or by the Timer.
C12_LeavesOnlyResolved ==
    [][(finished /\ pc["loop"] \in {"test", "poll"})
         => pc'["loop"] \in {"test", "poll", "cancel"}]_vars

\* C12, amended: a stop request changes nothing of a verification in flight;
\* the loop leaves the poll loop only with the call's Event set, which only a
\* matching poll or the Timer sets, or by an exception of the state query of
\* a poll; it reaches its break only from the wait that follows.
C12_StopDoesNotPreempt ==
    [][InVerification =>
         /\ pc'["loop"] # "exited"
         /\ (finished' # finished) =>
                /\ pc'["loop"] = pc["loop"]
                /\ state_changed' = state_changed
                /\ expected_state' = expected_state
                /\ timeout' = timeout
         /\ (pc["loop"] # "cancel" /\ pc'["loop"] = "cancel")
                => state_changed["cycle"]
         /\ (~state_changed["cycle"] /\ state_changed'["cycle"]) =>
                \/ pc["loop"] = "poll" /\ device_on = expected_state["cycle"]
                \/ timeout["cycle"] = "armed" /\ timeout'["cycle"] = "set"
         /\ (pc["loop"] \in {"test", "poll"} /\ ~InVerification')
                => /\ pc["loop"] = "poll"
                   /\ event' = Event("failed", "cycle", "none", NoReading)
         /\ (pc["loop"] = "cancel" /\ ~InVerification') => pc'["loop"] = "wait"
      ]_vars

\* stop() has sent its turn_off while the loop verifies a turn_on: the loop's
\* next poll follows the shutdown command
C12_Witness ==
    /\ pc["loop"] = "poll" /\ finished /\ sent[<<"stop", "off">>] >= 1
    /\ expected_state["cycle"] /\ timeout["cycle"] = "armed" /\ ~device_on


LoopActs == event.origin \in {"loop", "cycle"}

\* C13: in immediate mode the slot stays empty, the first exception caught in
\* run() ends the loop thread, and the ended thread does nothing more: no
\* wait, no connectivity check, no decision cycle, no poll.
C13_ImmediateErrorEndsLoop ==
    /\ [](~handle_exceptions_in_main_thread => exception = "none")
    /\ [](pc["loop"] = "dead" <=> raised["loop"] # "none")
    /\ [](pc["loop"] = "dead" => ~handle_exceptions_in_main_thread)
    /\ [][pc["loop"] = "dead" =>
             /\ pc'["loop"] = "dead"
             /\ raised'["loop"] = raised["loop"]
             /\ cycles' = cycles
             /\ stopPc'["loop"] = stopPc["loop"]
             /\ ~LoopActs']_vars
    /\ [][(~handle_exceptions_in_main_thread /\ pc["loop"] # "dead"
             /\ event'.kind \in {"decision", "failed"}
             /\ LoopActs'
             /\ event'.cmd = "none"
             /\ event'.reading.kind # "ok")
          => pc'["loop"] = "dead"]_vars
    /\ [][(~handle_exceptions_in_main_thread
             /\ stopPc["loop"] # "none" /\ stopPc'["loop"] = "none")
          => (pc'["loop"] = "dead"
                /\ raised'["loop"] = "SmartPlugConnectionError")]_vars

\* immediate mode: the sensor gave no battery in an iteration and the loop
\* thread has ended with that error
C13_Witness ==
    /\ ~handle_exceptions_in_main_thread
    /\ pc["loop"] = "dead" /\ raised["loop"] = "battery_state"
    /\ cycles >= 1 /\ exception = "none"


\* what a step of stop() leaves alone: the connection-lost flag, every
\* verification call (no is_on query, no Timer armed), the counts of the
\* commands of __init__; the stop flag is set
StopFrame ==
    /\ finished'
    /\ connection_lost' = connection_lost
    /\ state_changed' = state_changed
    /\ expected_state' = expected_state
    /\ outcome' = outcome
    /\ \A v \in Calls : timeout'[v] = "armed" => timeout[v] = "armed"
    /\ \A c \in Cmds : sent'[<<"main", c>>] = sent[<<"main", c>>]
    /\ sent'[<<"stop", "on">>] = 0
    /\ cycles' = cycles
    /\ event'.kind \in {"none", "command"}

\* the step is line 192 or 193 of a stop() call at position p: from line 192
\* on to line 193 exactly when the flag is false, and line 193 is one turn_off
StopLine(p, left) ==
    /\ p = "check" =>
         /\ sent' = sent /\ device_on' = device_on
         /\ left <=> connection_lost
    /\ p = "off" =>
         /\ left
         /\ sent'[<<"stop", "off">>] = sent[<<"stop", "off">>] + 1
         /\ event' = Event("command", "stop", "off", NoReading)
    /\ p = "set" => sent' = sent /\ device_on' = device_on /\ ~left

\* C14: every step of a stop() call sets or keeps the stop flag, sends one
\* turn_off exactly when line 192 read the connection-lost flag as false, and
\* changes nothing else: no is_on query, no Timer, the connection-lost flag
\* and, in a handler's or a Timer's call, the slot unchanged (the slot written
\* as stop() returns into __check_connection_to_smart_plug is the raise of
\* line 92 caught by run()).
C14_StopFrame ==
    /\ [][\A k \in Ctx \cup Calls :
            (stopPc[k] # "none" /\ stopPc'[k] # stopPc[k]) =>
                /\ StopFrame
                /\ StopLine(stopPc[k], stopPc'[k] = "none")
                /\ frames' = frames
                /\ k \in Calls => exception' = exception /\ pc' = pc
                /\ k \in Ctx => exception' \in {exception, "SmartPlugConnectionError"}]_vars
    /\ [][frames' # frames =>
            /\ StopFrame
            /\ exception' = exception
            /\ stopPc' = stopPc
            /\ Len(frames') > Len(frames) =>
                   /\ sent' = sent /\ device_on' = device_on /\ pc' = pc
                   /\ \E via \in {"signal", "window"} :
                          frames' = Append(frames, Entered(via))
            /\ Len(frames') <= Len(frames) =>
                   StopLine(Top.at, Len(frames') < Len(frames))]_vars

\* a handler's stop() has just sent its turn_off with the plug reachable
C14_Witness ==
    /\ event = Event("command", "stop", "off", NoReading)
    /\ finished /\ ~connection_lost /\ ~device_on /\ frames = << >>
    /\ pc["main"] = "polling"


\* C15: the step in which stop() sends its turn_off raises nothing to the
\* caller of stop(), whatever the driver does: every context goes on where it
\* was, and the stop flag is set.
C15_StopDoesNotRaise ==
    [][(event'.kind = "command" /\ event'.origin = "stop")
         => (pc' = pc /\ raised' = raised /\ finished')]_vars


\* the controller has stopped: the stop flag is set, its loop thread has ended
\* and no stop() call is running
Stopped ==
    /\ finished /\ pc["loop"] \in {"exited", "dead"}
    /\ frames = << >> /\ \A k \in Ctx \cup Calls : stopPc[k] = "none"

\* C16: once the controller has stopped, the process's handler table no
\* longer holds its handlers, so that a later interrupt or shutdown signal
\* does not invoke its stop().
C16_NoStaleHandlers == Stopped => handler = NoHandlers


Dispatched == event.kind = "platform"

\* C17: on every platform name other than Windows, Linux and Darwin the
\* dispatcher raises UnsupportedSystemError and registers nothing: the
\* handler table is what it was before the call; on the three names it
\* does not raise that error.
C17_UnsupportedSystem ==
    [][Dispatched' =>
         /\ event'.origin \in Systems
         /\ event'.origin \notin Supported =>
                /\ handler' = handler
                /\ handler' = NoHandlers
                /\ pc'["main"] = "raised"
                /\ raised'["main"] = "UnsupportedSystemError"
         /\ event'.origin \in Supported =>
                /\ raised'["main"] # "UnsupportedSystemError"
                /\ raised'["main"] = "none" => pc'["main"] = "ready"]_vars

\* the platform name was "windows", which is not "Windows"
C17_Witness ==
    /\ Dispatched /\ event.origin = "windows"
    /\ raised["main"] = "UnsupportedSystemError" /\ handler = NoHandlers


\* C18: on Windows, Linux and Darwin the dispatcher leaves the SIGINT handler
\* registered, and it stays registered; whatever the shutdown handler has or
\* has not done, a SIGINT can be delivered (up to MaxStops deliveries), also
\* inside a running handler, and a delivery is one call of the controller's
\* stop(): one frame, at line 192, the stop flag set.
C18_SigintBound ==
    /\ []((Dispatched /\ event.origin \in Supported) => handler.sigint)
    /\ [](Constructed => handler.sigint)
    /\ []((Constructed /\ delivered < MaxStops) => ENABLED Deliver("sigint"))
    /\ [][handler.sigint => handler'.sigint]_vars
    /\ [][(delivered' # delivered /\ queued' = queued) =>
            /\ delivered' = delivered + 1
            /\ frames' = Append(frames, Entered("signal"))
            /\ finished'
            /\ sent' = sent]_vars

\* Windows, no shutdown message ever posted: a SIGINT arrived inside a running
\* stop() and each of the two deliveries has its own stop() call
C18_Witness ==
    /\ handler = [sigint |-> TRUE, sigterm |-> FALSE, window |-> TRUE]
    /\ queued = 0 /\ delivered = 2 /\ Len(frames) = 2
    /\ sent[<<"stop", "off">>] = 0


\* C19: on Windows a queued shutdown message leaves the queue only in a read
\* of is_running by the owner (check_events, line 72), where it becomes one
\* call of stop(); is_running returns False only with the queue pumped and
\* the loop thread ended; and, the owner reading is_running again and again,
\* a queued message leads to the stop flag set, the queue empty and is_running
\* returning False (unless an exception raised by a signal handler has ended
\* the owner, which then reads is_running no more).
C19_PumpedShutdown ==
    /\ [](queued > 0 => handler.window)
    /\ [][queued' < queued =>
            /\ pc["main"] = "polling" /\ frames = << >>
            /\ queued' = queued - 1
            /\ frames' = << Entered("window") >>
            /\ finished'
            /\ pc' = pc]_vars
    /\ [][(pc["main"] = "polling" /\ pc'["main"] = "join")
            => (queued = 0 /\ ~Alive /\ frames = << >>)]_vars
    /\ (queued > 0 /\ pc["main"] = "polling")
         ~> \/ pc["main"] = "join" /\ finished /\ queued = 0
            \/ pc["main"] = "raised"

\* a shutdown message, and no signal, has stopped the controller: the owner
\* is past its is_running loop
C19_Witness ==
    /\ handler.window /\ delivered = 1 /\ queued = 0
    /\ pc["main"] = "join" /\ pc["loop"] = "exited"
    /\ sent[<<"stop", "off">>] = 1 /\ finished /\ cycles >= 1


\* C20: once a poll of a verification call has seen the target with the
\* call's Timer not yet fired, and has set the call's Event, the Timer of that
\* call does not set the connection-lost flag nor call stop().
C20_SuccessNotOverridden ==
    \A v \in Calls : outcome[v] = "matched" => timeout[v] # "lost"


\* the exceptions a decision cycle can raise: the two of __get_battery_state
\* and the driver's, from turn_on / turn_off or from a poll of is_on
CycleErrors == {"battery_state", "ac_power_cable", "DriverError"}

\* the except clause of run() has caught an exception of a decision cycle
LoopCycleFailed == exception \in CycleErrors \/ raised["loop"] \in CycleErrors

\* C21: once run() has handled an exception of a decision cycle, in either
\* error mode, the connection-lost flag and the stop flag are set (as after a
\* failed connectivity check).
C21_CycleErrorLikeLostConnection ==
    LoopCycleFailed => (connection_lost /\ finished)


\* run() has handled the SmartPlugConnectionError of line 92
LoopConnectionFailed ==
    \/ exception = "SmartPlugConnectionError"
    \/ raised["loop"] = "SmartPlugConnectionError"

\* C22: when the state query of line 174 fails, the connection-lost flag is
\* set before stop() is called, that stop() sets the stop flag and sends no
\* turn_off, the decision cycle of the iteration is not run, and the loop
\* does no further iteration: it breaks at its next test or has ended.
C22_LoopConnectivityFailure ==
    /\ [](pc["loop"] = "conn_lost" => connection_lost)
    /\ [](stopPc["loop"] # "off")
    /\ [](LoopConnectionFailed =>
            /\ connection_lost /\ finished
            /\ pc["loop"] \in {"wait", "exited", "dead"}
            /\ stopPc["loop"] = "none")
    /\ [][pc["loop"] = "conn_lost" =>
            /\ pc'["loop"] \in {"conn_lost", "wait", "dead"}
            /\ cycles' = cycles
            /\ sent'[<<"stop", "off">>] # sent[<<"stop", "off">>]
                 => stopPc' = stopPc
            /\ pc'["loop"] # "conn_lost" => LoopConnectionFailed']_vars
    /\ [][LoopConnectionFailed =>
            /\ cycles' = cycles
            /\ pc["loop"] = "wait" => pc'["loop"] \in {"wait", "exited"}
            /\ ~LoopActs']_vars

\* deferred mode, no signal: the query failed in an iteration, no turn_off
\* was sent by any stop(), and the loop has left through its break
C22_Witness ==
    /\ exception = "SmartPlugConnectionError" /\ pc["loop"] = "exited"
    /\ cycles >= 1 /\ delivered = 0 /\ sent[<<"stop", "off">>] = 0
    /\ connection_lost /\ finished


LoopEnded == pc["loop"] \in {"exited", "dead"}

\* C23: the stop flag is never cleared, a loop thread that has ended never
\* runs again, and the loop thread ends only with the stop flag set.
C23_Monotonic ==
    /\ [][finished => finished']_vars
    /\ [][LoopEnded => pc'["loop"] = pc["loop"]]_vars
    /\ [](LoopEnded => finished)


\* C24: the connection-lost flag, once set, stays set; whoever set it is about
\* to run line 191 of stop() unless the stop flag is set already, so that the
\* stop flag gets set; and with the flag set the loop begins no connectivity
\* check and no decision cycle.
C24_ConnectionLostTerminal ==
    /\ [][connection_lost => connection_lost']_vars
    /\ [](connection_lost =>
            \/ finished
            \/ \E k \in Ctx \cup Calls : stopPc[k] = "set")
    /\ connection_lost ~> finished
    /\ [](connection_lost => pc["loop"] \notin {"check", "manage"})
    /\ [][connection_lost =>
            /\ cycles' = cycles
            /\ ~(event'.kind = "decision" /\ event'.origin = "loop")]_vars

\* the Timer of a cycle's verification has set the flag and then, in stop(),
\* the stop flag; the loop is still in that verification
C24_Witness ==
    /\ connection_lost /\ finished /\ delivered = 0
    /\ timeout["cycle"] = "lost" /\ stopPc["cycle"] = "check"
    /\ InVerification


\* the step sent a command of the controller's own flow, in context c, and
\* the driver returned: the forced turn_off of line 53 or the command of a
\* decision cycle
FlowCommand(c, cmd) ==
    /\ \/ event' = Event("command", c, cmd, NoReading)
       \/ event'.kind = "decision" /\ event'.origin = c /\ event'.cmd = cmd
    /\ pc'[c] \notin {"raised", "dead", "wait"}

Verifying(c) == pc[c] \in {"test", "poll", "cancel"}

\* every command of the flow is followed, in its context, by the verification
\* of the matching target, begun after the command; a context that verifies
\* sends no command
VerifiedCommands ==
    /\ [][\A c \in Ctx, cmd \in Cmds : FlowCommand(c, cmd) =>
            /\ ~Verifying(c) /\ pc'[c] = "test"
            /\ timeout'[CallOf(c)'] = "armed"
            /\ expected_state'[CallOf(c)'] = (cmd = "on")
            /\ ~state_changed'[CallOf(c)']
            /\ outcome'[CallOf(c)'] = "begun"]_vars
    /\ [][\A c \in Ctx : Verifying(c) =>
            /\ ~(event'.cmd # "none" /\ event'.origin = c)
            /\ \A cmd \in Cmds : sent'[<<"main", cmd>>] = sent[<<"main", cmd>>]
            /\ ret'[c] = ret[c]]_vars

\* C25: every command of the flow is followed by its verification as above,
\* and the verification polls is_on at least once: its first loop test leads
\* to a poll, not to the end of the call.
C25_VerifiedWithPoll ==
    /\ VerifiedCommands
    /\ [][\A c \in Ctx :
            (pc[c] = "test" /\ outcome[CallOf(c)] = "begun") =>
                pc'[c] \in {"test", "poll"}]_vars

\* a cycle has sent turn_on and its verification of "on" has polled once,
\* without a match yet
C25_Witness ==
    /\ pc["loop"] = "test" /\ outcome["cycle"] = "polling"
    /\ expected_state["cycle"] /\ timeout["cycle"] = "armed" /\ ~device_on

\* the step is a decision cycle of context c whose snapshot triggers neither
\* rule of lines 149 and 153
NoOpCycle(c) ==
    /\ pc[c] = "manage"
    /\ event'.kind = "decision" /\ event'.origin = c
    /\ event'.reading.kind = "ok"
    /\ ~(~event'.reading.plugged /\ event'.reading.percent < BATTERY_LOW)
    /\ ~(event'.reading.plugged /\ event'.reading.percent >= BATTERY_HIGH)

\* C26: a decision cycle whose snapshot triggers neither rule sends no
\* command, arms no timer and keeps the stop flag, the connection-lost flag
\* and the deferred-error slot; it changes nothing but the position of its
\* context, which goes on where a cycle without a command goes on (the loop
\* back to its wait), so consecutive no-op cycles leave the state of none.
C26_NoOpCycle ==
    [][\A c \in Ctx : NoOpCycle(c) =>
          /\ event'.cmd = "none"
          /\ UNCHANGED <<sent, device_on>>
          /\ UNCHANGED <<state_changed, expected_state, timeout, outcome>>
          /\ UNCHANGED <<finished, connection_lost, exception>>
          /\ UNCHANGED <<raised, ret, stopPc, frames, handler, queued,
                         delivered, cycles, handle_exceptions_in_main_thread>>
          /\ pc' = [pc EXCEPT ![c] = After(c)]]_vars

\* the loop is back at its wait after its last allowed cycle, a no-op at the
\* lower threshold, and nothing was sent or armed by the loop
C26_Witness ==
    /\ event.kind = "decision" /\ event.origin = "loop" /\ event.cmd = "none"
    /\ event.reading.kind = "ok" /\ ~event.reading.plugged
    /\ event.reading.percent = BATTERY_LOW
    /\ pc["loop"] = "wait" /\ cycles = MaxCycles
    /\ outcome["cycle"] = "none" /\ timeout["cycle"] = "none"
    /\ ~finished /\ ~connection_lost /\ exception = "none"

\* C27: under fair scheduling every verification call of the loop ends, by
\* its return or by an exception of the state query; once the call's Event is
\* set, by a matching poll or by the Timer of the call, the next loop test
\* ends the poll loop, and the Timer of a call that goes on polling is armed
\* or has fired, whatever is_on reports.
C27_VerificationTerminates ==
    /\ InVerification ~> ~InVerification
    /\ [][(pc["loop"] = "test" /\ state_changed["cycle"])
            => pc'["loop"] \in {"test", "cancel"}]_vars
    /\ [](pc["loop"] \in {"test", "poll"} =>
            \/ timeout["cycle"] = "armed"
            \/ state_changed["cycle"])

\* a verification of "on" has returned after its Timer fired, the plug having
\* stayed off
C27_Witness ==
    /\ event = Event("returned", "cycle", "none", NoReading)
    /\ outcome["cycle"] = "timed_out"
    /\ ~device_on /\ pc["loop"] = "wait"

\* the step is a decision cycle of context c whose sensor read gave the
\* incomplete reading of kind k
IncompleteRead(c, k) ==
    /\ pc[c] = "manage"
    /\ event'.kind = "decision" /\ event'.origin = c
    /\ event'.reading.kind = k

\* the step ends the decision cycle of context c by the exception e: out of
\* __init__, out of run() in immediate mode, into the slot in deferred mode
CycleFailsWith(c, e) ==
    IF c = "main"
    THEN pc'[c] = "raised" /\ raised'[c] = e
    ELSE IF handle_exceptions_in_main_thread
         THEN exception' = e /\ raised'[c] = "none"
         ELSE pc'[c] = "dead" /\ raised'[c] = e

\* C28: a decision cycle whose sensor read gives no battery information fails
\* with the kind "battery_state", one whose AC-plugged status is missing with
\* the kind "ac_power_cable", never the other way round, and in both cases
\* the cycle sends no command and begins no verification.
C28_IncompleteReading ==
    [][\A c \in Ctx :
         /\ IncompleteRead(c, "none") =>
                CycleFailsWith(c, "battery_state")
                  /\ ~CycleFailsWith(c, "ac_power_cable")
         /\ IncompleteRead(c, "no_ac") =>
                CycleFailsWith(c, "ac_power_cable")
                  /\ ~CycleFailsWith(c, "battery_state")
         /\ (IncompleteRead(c, "none") \/ IncompleteRead(c, "no_ac")) =>
                /\ event'.cmd = "none"
                /\ UNCHANGED <<sent, device_on>>
                /\ UNCHANGED <<state_changed, expected_state, timeout, outcome>>
                /\ pc'[c] \notin {"test", "poll", "cancel"}]_vars

\* deferred mode: a cycle of the loop read a battery without its AC-plugged
\* status and the slot holds that kind
C28_Witness ==
    /\ event.kind = "decision" /\ event.origin = "loop"
    /\ event.reading.kind = "no_ac" /\ event.cmd = "none"
    /\ handle_exceptions_in_main_thread
    /\ exception = "ac_power_cable" /\ pc["loop"] = "wait"

\* the step is a decision cycle of context c that read a complete snapshot
CompleteRead(c) ==
    /\ pc[c] = "manage"
    /\ event'.kind = "decision" /\ event'.origin = c
    /\ event'.reading.kind = "ok"

\* C29: the command a decision cycle chooses is the rule of lines 149-156
\* applied to the snapshot the cycle read, in __init__ and in run(), whatever
\* the plug reports, whatever was sent before and whatever the error mode is;
\* every snapshot can be read in every such state.
C29_CommandFromSnapshotOnly ==
    /\ [][\A c \in Ctx : CompleteRead(c) =>
            event'.cmd = Decision(event'.reading.percent, event'.reading.plugged)]_vars
    /\ [](\A c \in Ctx : (pc[c] = "manage" /\ (c = "main" => MainRuns)) =>
            \A b \in Readings(BoundaryPercents) : ENABLED ManagePowerSupply(c, b))

\* the decision cycle of __init__ sent turn_on and its verification matched,
\* no stop() has turned the plug off since, and a cycle of run() has sent
\* turn_on again to the plug that reports on
C29_Witness ==
    /\ event.kind = "decision" /\ event.origin = "loop" /\ event.cmd = "on"
    /\ sent[<<"main", "on">>] = 1 /\ outcome["main2"] = "matched"
    /\ sent[<<"stop", "off">>] = 0
    /\ device_on /\ pc["loop"] = "test"

\* C30: a Timer is armed only while the verification call that started it is
\* being executed; none stays armed, to fire later, once the call has ended.
C30_NoTimerOutlivesCall ==
    \A v \in Calls : timeout[v] = "armed" => InCall(v)

\* __init__ has not returned and has not raised
InConstruction ==
    pc["main"] \in {"check", "conn_lost", "turn_off", "test", "poll",
                    "cancel", "manage", "handler"}

SentBy(o) == sent[<<o, "on">>] + sent[<<o, "off">>]

ObedientStep ==
    /\ \A c \in Ctx : pc'[c] # "conn_lost" /\ raised'[c] # "DriverError"
    /\ exception' # "DriverError"
    /\ event'.kind # "failed"
    /\ event'.cmd # "none" => device_on' = (event'.cmd = "on")
    /\ Len(frames') < Len(frames) => frames' = Pop

\* A poll of call v has seen another state than the target and none has seen
\* the target since: STATE_CHANGE_TIMEOUT is a hundred poll periods (line
\* 119), so the Timer of a call expires only after such a poll.
PollMissed(v) == outcome[v] = "polling"

\* the started controller of InitRun with that plug
NextObedient ==
    \/ \E c \in Ctx : CheckConnection(c) /\ ObedientStep
    \/ \E k \in Callers : StopSetFlag(k) /\ ObedientStep
    \/ \E k \in Callers : StopReadFlag(k) /\ ObedientStep
    \/ \E k \in Callers : StopTurnOff(k) /\ ObedientStep
    \/ \E c \in Ctx : TestStateChanged(c) /\ ObedientStep
    \/ \E c \in Ctx : Poll(c) /\ ObedientStep
    \/ \E c \in Ctx : CancelAndReturn(c) /\ ObedientStep
    \/ \E v \in Calls : PollMissed(v) /\ TimerFires(v) /\ ObedientStep
    \/ \E v \in Calls : TimerLost(v) /\ ObedientStep
    \/ \E c \in Ctx, b \in Readings(BoundaryPercents) :
          ManagePowerSupply(c, b) /\ ObedientStep
    \/ CheckEvents /\ ObedientStep
    \/ IsRunningFalse /\ ObedientStep
    \/ Join /\ ObedientStep
    \/ CheckException /\ ObedientStep
    \/ \E sig \in {"sigint", "sigterm", "direct"} : Deliver(sig) /\ ObedientStep
    \/ PostShutdownMessage /\ ObedientStep
    \/ WaitTimesOut /\ ObedientStep
    \/ WaitWoken /\ ObedientStep

SpecObedient == InitRun /\ [][NextObedient]_vars

\* C32: with a plug that is reachable and obeys, whatever stop() calls the
\* owner and the handlers make, the connection-lost flag is never set and no
\* Timer runs interaction_lost (no SmartPlugInteractionError arises).
C32_StopNeverLosesConnection ==
    /\ ~connection_lost
    /\ \A v \in Calls : timeout[v] \notin {"set", "lost"}

\* C33: while __init__ runs (connectivity check, forced turn_off, the
\* verifications, the decision cycle) no handler of this controller is
\* registered and no interrupt has entered its stop(); and when __init__
\* raises, whatever raises, it leaves no handler registered.
C33_DispatcherLastStep ==
    /\ [](InConstruction =>
            handler = NoHandlers /\ frames = << >> /\ delivered = 0)
    /\ [][(InConstruction /\ pc'["main"] = "raised")
            => handler' = NoHandlers]_vars

=============================================================================
